---- MODULE Spec2Model ----
(***************************************************************************)
(* sanity-plugin-easy-preview: the Preview document action                 *)
(* (src/src/index.ts).  The model follows the plugin closure easyPreview:  *)
(* the PreviewAction component, its handlePreview callback, the secret     *)
(* write (transaction createOrReplace + commit), the background            *)
(* cleanupExpiredSecrets sweep, and the dataset, toast sink, console and   *)
(* window they act on.                                                     *)
(*                                                                         *)
(* JavaScript runs each synchronous stretch of a callback to completion,   *)
(* so one action is one such stretch: handlePreview up to its await, the   *)
(* settlement of the commit together with the rest of handlePreview, and   *)
(* the settlement of the delete together with the rest of                  *)
(* cleanupExpiredSecrets.                                                  *)
(***************************************************************************)
EXTENDS Integers, Sequences, FiniteSets, TLC

VARIABLES
    config,       \* the EasyPreviewConfig the plugin was instantiated with
    now,          \* the dataset's clock, in seconds (now() of the delete query)
    dataset,      \* the documents of the dataset
    txlog,        \* per invocation: the transactions it committed, in order
    uuids,        \* how many identifiers uuid() has handed out
    pc,           \* per invocation: where the component / callback stands
    props,        \* per invocation: the props of PreviewAction
    action,       \* per invocation: what PreviewAction returned
    secretDoc,    \* per invocation: the local secretDoc of handlePreview
    cleanup,      \* per invocation: state of its cleanupExpiredSecrets call
    url,          \* per invocation: the local url of handlePreview, as a string
    opened,       \* per invocation: the strings window.open opened, in order
    toasts,       \* per invocation: what it pushed to toast.push, in order
    console,      \* per invocation: its console.warn / console.error calls
    call,         \* a call of one of the module's functions: its arguments
    result        \* what that call returned, once it has

vars == <<config, now, dataset, txlog, uuids, pc, props, action,
          secretDoc, cleanup, url, opened, toasts, console, call, result>>

----------------------------------------------------------------------------
(* Bounds of the model *)

\* number of invocations: renders of PreviewAction, each followed by at most
\* one call of its callback
MaxReqs == 1

\* number of times the clock advances
MaxTicks == 1

Reqs == 1..MaxReqs

----------------------------------------------------------------------------
(* JavaScript values.  Each kind keeps its payload in a field of its own. *)

Undefined == [t |-> "undefined"]
Str(s) == [t |-> "string", s |-> s]
Num(n) == [t |-> "number", n |-> n]
Fn(name) == [t |-> "function", fn |-> name]
Obj(fields) == [t |-> "object", f |-> fields]

\* JavaScript truthiness of the values above (used by ||, ! and if)
Truthy(x) ==
    CASE x.t = "undefined" -> FALSE
      [] x.t = "null"      -> FALSE
      [] x.t = "string"    -> x.s # ""
      [] x.t = "number"    -> x.n # 0
      [] OTHER             -> TRUE

\* a || b
Or(a, b) == IF Truthy(a) THEN a ELSE b

\* thrown values: an Error carries a message, anything else does not
Err(msg) == [isError |-> TRUE, message |-> msg]
NonErr(val) == [isError |-> FALSE, value |-> val]

----------------------------------------------------------------------------
(* Strings *)

\* index of the first occurrence of the character c in s at or after i, or 0
RECURSIVE IndexOf(_, _, _)
IndexOf(s, c, i) ==
    IF i > Len(s) THEN 0
    ELSE IF SubSeq(s, i, i) = c THEN i
    ELSE IndexOf(s, c, i + 1)

\* s.split(sep) for a one-character separator: a sequence of strings
RECURSIVE Split(_, _)
Split(s, sep) ==
    LET k == IndexOf(s, sep, 1) IN
    IF k = 0 THEN <<s>>
    ELSE <<SubSeq(s, 1, k - 1)>> \o Split(SubSeq(s, k + 1, Len(s)), sep)

StartsWith(s, p) == Len(s) >= Len(p) /\ SubSeq(s, 1, Len(p)) = p

\* s.replace(/c/g, d) for one-character c
RECURSIVE ReplaceAll(_, _, _)
ReplaceAll(s, c, d) ==
    IF s = "" THEN ""
    ELSE (IF SubSeq(s, 1, 1) = c THEN d ELSE SubSeq(s, 1, 1))
         \o ReplaceAll(SubSeq(s, 2, Len(s)), c, d)

\* s.replace(/[c]+$/, '') for one-character c
RECURSIVE StripTrailing(_, _)
StripTrailing(s, c) ==
    IF s # "" /\ SubSeq(s, Len(s), Len(s)) = c
    THEN StripTrailing(SubSeq(s, 1, Len(s) - 1), c)
    ELSE s

----------------------------------------------------------------------------
(* generateUrlSecret, lines 40-56 *)

HexDigits == "0123456789abcdef"
Base64Alphabet == "ABCDEFGHIJKLMNOPQRSTUVWXYZabcdefghijklmnopqrstuvwxyz0123456789+/"

\* byte.toString(16).padStart(2, '0')
ToHex2(byte) ==
    SubSeq(HexDigits, (byte \div 16) + 1, (byte \div 16) + 1)
    \o SubSeq(HexDigits, (byte % 16) + 1, (byte % 16) + 1)

\* the loop of lines 45-48
RECURSIVE HexKey(_)
HexKey(array) ==
    IF array = <<>> THEN "" ELSE ToHex2(Head(array)) \o HexKey(Tail(array))

\* character code of a hexadecimal digit ('0' is 48, 'a' is 97)
CharCode(c) ==
    LET k == IndexOf(HexDigits, c, 1) IN IF k <= 10 THEN 47 + k ELSE 86 + k

B64(n) == SubSeq(Base64Alphabet, n + 1, n + 1)

\* btoa on a string of hexadecimal digits
RECURSIVE Btoa(_)
Btoa(s) ==
    IF s = "" THEN ""
    ELSE IF Len(s) = 1 THEN
        LET a == CharCode(SubSeq(s, 1, 1)) IN
        B64(a \div 4) \o B64((a % 4) * 16) \o "=="
    ELSE IF Len(s) = 2 THEN
        LET a == CharCode(SubSeq(s, 1, 1))
            b == CharCode(SubSeq(s, 2, 2)) IN
        B64(a \div 4) \o B64((a % 4) * 16 + (b \div 16)) \o B64((b % 16) * 4) \o "="
    ELSE
        LET a == CharCode(SubSeq(s, 1, 1))
            b == CharCode(SubSeq(s, 2, 2))
            c == CharCode(SubSeq(s, 3, 3)) IN
        B64(a \div 4) \o B64((a % 4) * 16 + (b \div 16))
        \o B64((b % 16) * 4 + (c \div 64)) \o B64(c % 64)
        \o Btoa(SubSeq(s, 4, Len(s)))

\* as generateUrlSecret, had the padding been left in place
generateUrlSecretPadded(array) ==
    ReplaceAll(ReplaceAll(Btoa(HexKey(array)), "+", "-"), "/", "_")

\* the crypto branch, given the bytes crypto.getRandomValues filled in
generateUrlSecret(array) ==
    StripTrailing(ReplaceAll(ReplaceAll(Btoa(HexKey(array)), "+", "-"), "/", "_"), "=")

\* new Uint8Array(16)
SecretBytes == 16

Base36Digits == "0123456789abcdefghijklmnopqrstuvwxyz"

\* x.toString(36) for x = Math.random(), a number of [0, 1) given by the
\* digits of its fraction in base 36: "0" for zero, "0." and the digits otherwise
RECURSIVE Base36(_)
Base36(digits) ==
    IF digits = <<>> THEN ""
    ELSE SubSeq(Base36Digits, Head(digits) + 1, Head(digits) + 1) \o Base36(Tail(digits))

ToString36(digits) == IF digits = <<>> THEN "0" ELSE "0." \o Base36(digits)

\* s.substring(from, to), 0 <= from <= to
Substring(s, from, to) ==
    SubSeq(s, from + 1, IF to < Len(s) THEN to ELSE Len(s))

\* the fallback of line 55, given the two numbers Math.random returned
generateUrlSecretFallback(r1, r2) ==
    Substring(ToString36(r1), 2, 15) \o Substring(ToString36(r2), 2, 15)

\* outcomes of crypto.getRandomValues the model draws from
RandomArrays ==
    { [i \in 1..SecretBytes |-> 0],
      [i \in 1..SecretBytes |-> IF i % 2 = 1 THEN 222 ELSE 173] }

----------------------------------------------------------------------------
(* getSlugValue, lines 61-77 *)

\* what every object inherits from Object.prototype, which the `in` of line 70
\* finds as well as the object's own members
ObjectPrototype ==
    Obj([constructor |-> Fn("Object"), toString |-> Fn("toString"),
         hasOwnProperty |-> Fn("hasOwnProperty"), valueOf |-> Fn("valueOf"),
         __proto__ |-> [t |-> "null"]])

\* part in value, for an object
In(part, value) ==
    part \in DOMAIN value.f \/ part \in DOMAIN ObjectPrototype.f

\* value[part], for an object
Member(value, part) ==
    IF part \in DOMAIN value.f THEN value.f[part]
    ELSE IF part = "__proto__" THEN ObjectPrototype
    ELSE ObjectPrototype.f[part]

\* the for loop of lines 68-74: the value reached, or Undefined with ok FALSE
RECURSIVE Walk(_, _)
Walk(value, parts) ==
    IF parts = <<>> THEN [ok |-> TRUE, value |-> value]
    ELSE IF Truthy(value) /\ value.t = "object" /\ In(Head(parts), value)
         THEN Walk(Member(value, Head(parts)), Tail(parts))
         ELSE [ok |-> FALSE, value |-> Undefined]

\* returns Str(..) or Null
Null == [t |-> "null"]

\* as getSlugValue, had line 76 returned the value reached whatever its type
getSlugValueUnchecked(doc, path) ==
    IF ~Truthy(doc) \/ path = "" THEN Null
    ELSE LET w == Walk(doc, Split(path, ".")) IN
         IF w.ok THEN w.value ELSE Null

getSlugValue(doc, path) ==
    IF ~Truthy(doc) \/ path = "" THEN Null
    ELSE LET w == Walk(doc, Split(path, ".")) IN
         IF w.ok /\ w.value.t = "string" THEN w.value ELSE Null

----------------------------------------------------------------------------
(* Configuration, lines 120-137 *)

\* draftRoute = '/api/draft', line 123
draftRoute == "/api/draft"

\* the types of the README's configuration (lines 321-337), and two types
\* whose urlPrefix function can throw
types ==
    << [type |-> "page",     urlPrefix |-> Str(""),          slugField |-> Undefined],
       [type |-> "blogPost", urlPrefix |-> Str("/blog"),     slugField |-> Undefined],
       [type |-> "product",  urlPrefix |-> Fn("byCategory"),
                             slugField |-> Str("productSlug.current")],
       [type |-> "event",    urlPrefix |-> Fn("byVenue"),    slugField |-> Undefined],
       [type |-> "note",     urlPrefix |-> Fn("refuse"),     slugField |-> Undefined] >>

\* the configurations the plugin is instantiated with
Configs ==
    { [previewUrl |-> Str("http://localhost:3000"), slugField |-> Undefined],
      [previewUrl |-> Undefined,                    slugField |-> Str("meta.slug")] }

\* as typeConfigMap, had a lookup of an unknown type fallen back to the first entry
typeConfigMapWithFallback ==
    [ty \in {types[i].type : i \in DOMAIN types} \cup {"author"} |->
        IF \E i \in DOMAIN types : types[i].type = ty
        THEN types[CHOOSE i \in DOMAIN types : types[i].type = ty]
        ELSE types[1]]

\* typeConfigMap, lines 134-137: a later entry of a type replaces an earlier one
typeConfigMap ==
    [ty \in {types[i].type : i \in DOMAIN types} |->
        LET last == CHOOSE i \in DOMAIN types :
                        /\ types[i].type = ty
                        /\ \A j \in DOMAIN types : types[j].type = ty => j <= i
        IN types[last]]

\* `${x}` for the values the urlPrefix functions interpolate
Template(x) == IF x.t = "string" THEN x.s ELSE x.t

\* doc.key
Get(doc, key) == IF key \in DOMAIN doc.f THEN doc.f[key] ELSE Undefined

\* the urlPrefix functions: the string returned, or the value thrown
\*   byCategory: (doc) => `/products/${doc.category}`       (README line 332)
\*   byVenue:    (doc) => `/events/${doc.venue.city}`
\*   refuse:     (doc) => { throw 'no preview path' }
CallPrefix(fn, doc) ==
    CASE fn = "byCategory" ->
            [ok |-> TRUE, value |-> "/products/" \o Template(Get(doc, "category"))]
      [] fn = "byVenue" ->
            IF Get(doc, "venue").t = "object"
            THEN [ok |-> TRUE,
                  value |-> "/events/" \o Template(Get(Get(doc, "venue"), "city"))]
            ELSE [ok |-> FALSE,
                  error |-> Err("Cannot read properties of undefined (reading 'city')")]
      [] OTHER ->
            [ok |-> FALSE, error |-> NonErr("no preview path")]

----------------------------------------------------------------------------
(* Documents and props the host passes to PreviewAction *)

DocHome ==
    Obj([_id |-> Str("drafts.page-1"), _type |-> Str("page"),
         slug |-> Obj([current |-> Str("home")])])
DocNumericSlug ==
    Obj([_id |-> Str("drafts.page-3"), _type |-> Str("page"),
         slug |-> Obj([current |-> Num(42)])])
DocEmptySlug ==
    Obj([_id |-> Str("drafts.page-4"), _type |-> Str("page"),
         slug |-> Obj([current |-> Str("")])])
DocPublishedPage ==
    Obj([_id |-> Str("page-3"), _type |-> Str("page"),
         slug |-> Obj([current |-> Str("about")])])
DocPost ==
    Obj([_id |-> Str("post-1"), _type |-> Str("blogPost"),
         slug |-> Obj([current |-> Str("hello")]),
         meta |-> Obj([slug |-> Str("hello-meta")])])
DocProduct ==
    Obj([_id |-> Str("drafts.prod-1"), _type |-> Str("product"),
         category |-> Str("shoes"),
         productSlug |-> Obj([current |-> Str("boot")])])
DocEvent ==
    Obj([_id |-> Str("drafts.event-1"), _type |-> Str("event"),
         slug |-> Obj([current |-> Str("gig")])])
DocNote ==
    Obj([_id |-> Str("drafts.note-1"), _type |-> Str("note"),
         slug |-> Obj([current |-> Str("memo")])])
DocAuthor ==
    Obj([_id |-> Str("drafts.author-1"), _type |-> Str("author"),
         slug |-> Obj([current |-> Str("ann")])])

\* {id, type, draft, published} of line 140
PropsPool ==
    { [id |-> "page-1",   type |-> "page",     draft |-> DocHome,        published |-> Undefined],
      [id |-> "page-2",   type |-> "page",     draft |-> Undefined,      published |-> Undefined],
      [id |-> "page-3",   type |-> "page",     draft |-> DocNumericSlug, published |-> DocPublishedPage],
      [id |-> "page-4",   type |-> "page",     draft |-> DocEmptySlug,   published |-> Undefined],
      [id |-> "post-1",   type |-> "blogPost", draft |-> Undefined,      published |-> DocPost],
      [id |-> "prod-1",   type |-> "product",  draft |-> DocProduct,     published |-> Undefined],
      [id |-> "event-1",  type |-> "event",    draft |-> DocEvent,       published |-> Undefined],
      [id |-> "note-1",   type |-> "note",     draft |-> DocNote,        published |-> Undefined],
      [id |-> "author-1", type |-> "author",   draft |-> DocAuthor,      published |-> Undefined],
      [id |-> "author-2", type |-> "author",   draft |-> Undefined,      published |-> Undefined] }

----------------------------------------------------------------------------
(* URL and URLSearchParams, as used at lines 213-221 *)

\* an absolute URL has a scheme followed by "//" and a host
IsAbsoluteUrl(base) ==
    LET k == IndexOf(base, ":", 1) IN
    k > 1 /\ SubSeq(base, k + 1, k + 2) = "//" /\ Len(base) > k + 2

OriginOf(base) ==
    LET k == IndexOf(base, ":", 1)
        j == IndexOf(base, "/", k + 3)
    IN IF j = 0 THEN base ELSE SubSeq(base, 1, j - 1)

PathOf(base) ==
    LET k == IndexOf(base, ":", 1)
        j == IndexOf(base, "/", k + 3)
    IN IF j = 0 THEN "/" ELSE SubSeq(base, j, Len(base))

\* the path up to and including its last "/"
RECURSIVE DirOf(_)
DirOf(path) ==
    IF path = "" \/ SubSeq(path, Len(path), Len(path)) = "/" THEN path
    ELSE DirOf(SubSeq(path, 1, Len(path) - 1))

\* new URL(route, base): the URL with no query yet, or the TypeError thrown
NewURL(route, base) ==
    IF base.t # "string" \/ ~IsAbsoluteUrl(base.s)
    THEN [ok |-> FALSE, error |-> Err("Invalid URL")]
    ELSE [ok |-> TRUE,
          value |-> [endpoint |-> IF StartsWith(route, "/")
                                  THEN OriginOf(base.s) \o route
                                  ELSE OriginOf(base.s) \o DirOf(PathOf(base.s)) \o route,
                     searchParams |-> <<>>]]

\* url.searchParams.set(name, value)
SearchParamsSet(u, name, value) ==
    LET ps == u.searchParams
        hit == {i \in DOMAIN ps : ps[i][1] = name}
    IN IF hit = {}
       THEN [u EXCEPT !.searchParams = Append(ps, <<name, value>>)]
       ELSE LET first == CHOOSE i \in hit : \A j \in hit : i <= j IN
            [u EXCEPT !.searchParams =
                SelectSeq([i \in DOMAIN ps |->
                              IF i = first THEN <<name, value>>
                              ELSE IF i \in hit THEN <<>> ELSE ps[i]],
                          LAMBDA e : e # <<>>)]

\* application/x-www-form-urlencoded serialisation of one character
FormEncodeChar(c) ==
    CASE c = "/" -> "%2F"
      [] c = ":" -> "%3A"
      [] c = "?" -> "%3F"
      [] c = "#" -> "%23"
      [] c = "&" -> "%26"
      [] c = "=" -> "%3D"
      [] c = "+" -> "%2B"
      [] c = "%" -> "%25"
      [] c = " " -> "+"
      [] OTHER   -> c

RECURSIVE FormEncode(_)
FormEncode(s) ==
    IF s = "" THEN ""
    ELSE FormEncodeChar(SubSeq(s, 1, 1)) \o FormEncode(SubSeq(s, 2, Len(s)))

RECURSIVE QueryString(_)
QueryString(ps) ==
    IF ps = <<>> THEN ""
    ELSE FormEncode(Head(ps)[1]) \o "=" \o FormEncode(Head(ps)[2])
         \o (IF Len(ps) > 1 THEN "&" ELSE "") \o QueryString(Tail(ps))

\* url.toString()
UrlToString(u) ==
    u.endpoint \o (IF u.searchParams = <<>> THEN "" ELSE "?" \o QueryString(u.searchParams))

----------------------------------------------------------------------------
(* The dataset *)

\* _type of the secret documents, lines 85 and 186
SecretType == "sanity.previewUrlSecret"

\* dateTime(now()) - 3600, line 85
TTL == 3600

\* window.location.origin of the studio
StudioOrigin == "http://localhost:3333"

\* as Expired, had the comparison been strict
ExpiredStrictlyOlder(doc, t) == doc._type = SecretType /\ doc._updatedAt < t - TTL

\* as Expired, had the filter named the type alone
ExpiredWhateverAge(doc, t) == doc._type = SecretType

\* the filter of the delete query, line 85, evaluated at time t
Expired(doc, t) == doc._type = SecretType /\ doc._updatedAt <= t - TTL

\* client.delete({query}) applied at time t
DeleteExpired(ds, t) == {d \in ds : ~Expired(d, t)}

\* transaction().createOrReplace(doc).commit() applied at time t
CreateOrReplace(ds, doc, t) ==
    {d \in ds : d._id # doc._id}
    \cup {[_id |-> doc._id, _type |-> doc._type, secret |-> doc.secret,
           source |-> doc.source, studioUrl |-> doc.studioUrl, _updatedAt |-> t]}

\* the clock starts one TTL after the epoch of the model
StartTime == TTL

\* what the dataset holds when the studio loads: two secrets of an earlier
\* session, one a whole TTL old and one a second younger, and a document of
\* another type as old as the older secret
InitialDataset ==
    { [_id |-> "drafts.old-0", _type |-> SecretType, secret |-> "c3RhbGUw",
       source |-> "page-1", studioUrl |-> StudioOrigin, _updatedAt |-> 0],
      [_id |-> "drafts.old-1", _type |-> SecretType, secret |-> "c3RhbGUx",
       source |-> "page-1", studioUrl |-> StudioOrigin, _updatedAt |-> 1],
      [_id |-> "page-3", _type |-> "page", secret |-> "", source |-> "",
       studioUrl |-> "", _updatedAt |-> 0] }

\* uuid(): the n-th identifier handed out
Uuid(n) == "uuid-" \o SubSeq("0123456789", n + 1, n + 1)

----------------------------------------------------------------------------
(* PreviewAction, lines 139-250 *)

\* what toast.push receives
Toast(status, title, description) ==
    [status |-> status, title |-> title, description |-> description]

ConfigMissingToast(type) ==
    Toast("error", "Preview not configured",
          "No preview configuration found for document type \"" \o type \o "\"")

DocumentMissingToast ==
    Toast("error", "No document found", "Cannot preview: document not found")

SlugMissingToast(slugField) ==
    Toast("error", "Missing slug", "Document missing required field: " \o slugField)

SuccessToast ==
    Toast("success", "Preview opened", "Opening preview in new tab...")

\* as CatchToast, had the message of the error been dropped
CatchToastGeneric(error) ==
    Toast("error", "Preview failed", "An unknown error occurred")

\* the toast of the catch block, lines 230-234
CatchToast(error) ==
    Toast("error", "Preview failed",
          IF error.isError THEN error.message ELSE "An unknown error occurred")

\* as PreviewAction, had it returned nothing when there is no document
PreviewActionAbsentWithoutDocument(p) ==
    IF p.type \notin DOMAIN typeConfigMap \/ (~Truthy(p.draft) /\ ~Truthy(p.published))
    THEN Null
    ELSE [label |-> "Preview", disabled |-> FALSE]

\* as PreviewAction, had the check of line 240 been left out
PreviewActionAlwaysOffered(p) ==
    [label |-> "Preview", disabled |-> ~Truthy(p.draft) /\ ~Truthy(p.published)]

\* what the component returns, lines 239-249 (onHandle is handlePreview)
PreviewAction(p) ==
    IF p.type \notin DOMAIN typeConfigMap
    THEN Null
    ELSE [label |-> "Preview",
          disabled |-> ~Truthy(p.draft) /\ ~Truthy(p.published)]

\* as DocumentOf, had the published version been preferred
DocumentOfPublishedFirst(p) == Or(p.published, p.draft)

\* const document = draft || published, line 156
DocumentOf(p) == Or(p.draft, p.published)

\* typeConfig.slugField || config.slugField || 'slug.current', line 167
SlugFieldOf(typeConfig, cfg) ==
    Or(Or(typeConfig.slugField, cfg.slugField), Str("slug.current")).s

\* as MakeSecretDoc, had the record been written under the bare identifier
MakeSecretDocPublished(secret, secretId, id) ==
    [_id |-> secretId, _type |-> SecretType, secret |-> secret,
     source |-> id, studioUrl |-> StudioOrigin]

\* secretDoc, lines 184-190
MakeSecretDoc(secret, secretId, id) ==
    [_id |-> "drafts." \o secretId, _type |-> SecretType, secret |-> secret,
     source |-> id, studioUrl |-> StudioOrigin]

NoDoc == [_id |-> "", _type |-> "", secret |-> "", source |-> "", studioUrl |-> ""]

\* urlPrefix, lines 204-210: the prefix, or the value the function threw
urlPrefixOf(typeConfig, document) ==
    IF Truthy(typeConfig.urlPrefix)
    THEN IF typeConfig.urlPrefix.t = "function"
         THEN CallPrefix(typeConfig.urlPrefix.fn, document)
         ELSE [ok |-> TRUE, value |-> typeConfig.urlPrefix.s]
    ELSE [ok |-> TRUE, value |-> ""]

\* as Pathname, had the prefix and the slug been joined without a separator
PathnameUnseparated(urlPrefix, slug) ==
    IF urlPrefix # "" THEN urlPrefix \o slug ELSE "/" \o slug

\* pathname, line 217
Pathname(urlPrefix, slug) ==
    IF urlPrefix # "" THEN urlPrefix \o "/" \o slug ELSE "/" \o slug

\* as FillUrl, had the secret of the URL come from a second call of the generator
FillUrlOtherSecret(u, secret, pathname) ==
    SearchParamsSet(SearchParamsSet(u, "sanity-preview-secret",
                                    generateUrlSecret([i \in 1..SecretBytes |-> 255])),
                    "sanity-preview-pathname", pathname)

\* as FillUrl, had the pathname been set before the secret
FillUrlPathnameFirst(u, secret, pathname) ==
    SearchParamsSet(SearchParamsSet(u, "sanity-preview-pathname", pathname),
                    "sanity-preview-secret", secret)

\* lines 213-218 once new URL succeeded
FillUrl(u, secret, pathname) ==
    SearchParamsSet(SearchParamsSet(u, "sanity-preview-secret", secret),
                    "sanity-preview-pathname", pathname)

\* the component function runs: the host renders the action for some props.
\* Invocations are numbered in the order their callbacks are called; a render
\* touches nothing shared, so it is taken when the one before has been called.
Render(r, p) ==
    /\ pc[r] = "idle"
    /\ r > 1 => pc[r - 1] \notin {"idle", "rendered"}
    /\ pc' = [pc EXCEPT ![r] = "rendered"]
    /\ props' = [props EXCEPT ![r] = p]
    /\ action' = [action EXCEPT ![r] = PreviewAction(p)]
    /\ UNCHANGED <<call, result, config, now, dataset, txlog, uuids, secretDoc, cleanup, url,
                   opened, toasts, console>>

\* as Exit, had the secret been generated before the checks
ExitAfterSecret(r, state, toast) ==
    /\ pc' = [pc EXCEPT ![r] = state]
    /\ toasts' = [toasts EXCEPT ![r] = Append(@, toast)]
    /\ secretDoc' = [secretDoc EXCEPT ![r] =
            MakeSecretDoc(generateUrlSecret([i \in 1..SecretBytes |-> 0]),
                          Uuid(uuids + 1), props[r].id)]
    /\ uuids' = uuids + 1

\* an early return of handlePreview after one toast
Exit(r, state, toast) ==
    /\ pc' = [pc EXCEPT ![r] = state]
    /\ toasts' = [toasts EXCEPT ![r] = Append(@, toast)]
    /\ UNCHANGED <<uuids, secretDoc>>

\* as SecretId, had the record been keyed by the document it is for
SecretIdOfDocument(n, id) == id

\* secretId, line 181: the next identifier of uuid(), whatever the document
SecretId(n, id) == Uuid(n)

\* lines 179-196: the secret and its document are made and the commit is sent
IssueSecret(r, array) ==
    /\ secretDoc' = [secretDoc EXCEPT ![r] =
            MakeSecretDoc(generateUrlSecret(array),
                          SecretId(uuids + 1, props[r].id), props[r].id)]
    /\ uuids' = uuids + 1
    /\ pc' = [pc EXCEPT ![r] = "awaitCommit"]
    /\ UNCHANGED toasts

\* handlePreview from its call to the await of line 193.  The callback exists
\* for every render (line 144) and checks the type and the document itself.
handlePreview(r) ==
    /\ pc[r] = "rendered"
    /\ LET p == props[r] IN
       IF p.type \notin DOMAIN typeConfigMap
       THEN Exit(r, "configMissing", ConfigMissingToast(p.type))
       ELSE IF ~Truthy(DocumentOf(p))
       THEN Exit(r, "documentMissing", DocumentMissingToast)
       ELSE LET slugField == SlugFieldOf(typeConfigMap[p.type], config) IN
            IF ~Truthy(getSlugValue(DocumentOf(p), slugField))
            THEN Exit(r, "slugMissing", SlugMissingToast(slugField))
            ELSE \E array \in RandomArrays : IssueSecret(r, array)
    /\ UNCHANGED <<call, result, config, now, dataset, txlog, props, action, cleanup, url,
                   opened, console>>

\* what window.open does with the string: opens it, or throws
OpenOutcomes ==
    { [ok |-> TRUE],
      [ok |-> FALSE, error |-> Err("Failed to execute 'open' on 'Window'")] }

\* what a failed commit rejects with
CommitErrors == { Err("Insufficient permissions; permission \"create\" required") }

\* what a failed delete rejects with
DeleteErrors == { Err("Request error while attempting to reach the API") }

\* cleanupExpiredSecrets(client), lines 82-86: runs up to its await, so the
\* delete request is sent when it is called
cleanupExpiredSecrets == "pending"

\* as CleanupDispatch, had the call been placed after the URL was built
CleanupDispatchAfterUrl(prefixOk, urlOk) ==
    IF prefixOk /\ urlOk THEN cleanupExpiredSecrets ELSE "none"

\* lines 198-201: where the call stands in handlePreview.  It comes before the
\* prefix is resolved and the URL is built, whatever becomes of them.
CleanupDispatch(prefixOk, urlOk) == cleanupExpiredSecrets

\* as AwaitsCleanup, had the call been awaited
AwaitsCleanupYes == TRUE

\* lines 199-201: the promise of the call is not awaited
AwaitsCleanup == FALSE

\* lines 198-221 of handlePreview, after the commit resolved: the state of the
\* cleanup call, the url built, what was opened, and the value thrown, if any
AfterCommit(p, cfg, secret, open) ==
    LET typeConfig == typeConfigMap[p.type]
        document   == DocumentOf(p)
        slug       == getSlugValue(document, SlugFieldOf(typeConfig, cfg)).s
        prefix     == urlPrefixOf(typeConfig, document)
        u          == NewURL(draftRoute, cfg.previewUrl)
        dispatched == CleanupDispatch(prefix.ok, prefix.ok /\ u.ok)
    IN IF ~prefix.ok
       THEN [cleanup |-> dispatched, url |-> "", opened |-> <<>>,
             thrown |-> <<prefix.error>>]
       ELSE IF ~u.ok
       THEN [cleanup |-> dispatched, url |-> "", opened |-> <<>>,
             thrown |-> <<u.error>>]
       ELSE LET href == UrlToString(FillUrl(u.value, secret,
                                            Pathname(prefix.value, slug))) IN
            IF open.ok
            THEN [cleanup |-> dispatched, url |-> href, opened |-> <<href>>,
                  thrown |-> <<>>]
            ELSE [cleanup |-> dispatched, url |-> href, opened |-> <<>>,
                  thrown |-> <<open.error>>]

\* as Caught, had the catch block logged the error and told the user nothing
CaughtSilently(r, state, error) ==
    /\ console' = [console EXCEPT ![r] =
                      Append(@, [level |-> "error", text |-> "Preview failed:"])]
    /\ pc' = [pc EXCEPT ![r] = state]
    /\ UNCHANGED toasts

\* the catch block, lines 228-235
Caught(r, state, error) ==
    /\ console' = [console EXCEPT ![r] =
                      Append(@, [level |-> "error", text |-> "Preview failed:"])]
    /\ toasts' = [toasts EXCEPT ![r] = Append(@, CatchToast(error))]
    /\ pc' = [pc EXCEPT ![r] = state]

\* lines 223-227
Succeeded(r) ==
    /\ toasts' = [toasts EXCEPT ![r] = Append(@, SuccessToast)]
    /\ pc' = [pc EXCEPT ![r] = "done"]
    /\ UNCHANGED console

\* as DatasetAfterHandler, had the catch block deleted the record again
DatasetRolledBack(ds, doc, t, thrown) ==
    IF thrown = <<>> THEN CreateOrReplace(ds, doc, t) ELSE ds

\* the dataset once handlePreview has returned: the commit of lines 193-196 is
\* in it, and the catch of lines 228-235 sends nothing to the dataset
DatasetAfterHandler(ds, doc, t, thrown) == CreateOrReplace(ds, doc, t)

\* the commit is applied by the dataset and its promise resolves: handlePreview
\* runs from line 198 to its end
CommitResolved(r, open) ==
    /\ pc[r] = "awaitCommit"
    /\ txlog' = [txlog EXCEPT ![r] = Append(@, [doc |-> secretDoc[r], at |-> now])]
    /\ LET o == AfterCommit(props[r], config, secretDoc[r].secret, open) IN
        /\ dataset' = DatasetAfterHandler(dataset, secretDoc[r], now, o.thrown)
        /\ cleanup' = [cleanup EXCEPT ![r] = o.cleanup]
        /\ IF AwaitsCleanup /\ o.cleanup = "pending"
           THEN /\ pc' = [pc EXCEPT ![r] = "awaitCleanup"]
                /\ UNCHANGED <<url, opened, toasts, console>>
           ELSE /\ url' = [url EXCEPT ![r] = o.url]
                /\ opened' = [opened EXCEPT ![r] = @ \o o.opened]
                /\ IF o.thrown = <<>>
                   THEN Succeeded(r)
                   ELSE Caught(r, "unknownFailure", o.thrown[1])
    /\ UNCHANGED <<call, result, config, now, uuids, props, action, secretDoc>>

\* as CommitRejected, had the cleanup been called before the commit was awaited
CommitRejectedAfterDispatch(r, error) ==
    /\ pc[r] = "awaitCommit"
    /\ Caught(r, "persistFailed", error)
    /\ cleanup' = [cleanup EXCEPT ![r] = cleanupExpiredSecrets]
    /\ UNCHANGED <<call, result, config, now, dataset, txlog, uuids, props, action, secretDoc,
                   url, opened>>

\* the commit fails and its promise rejects: the await of line 193 throws
CommitRejected(r, error) ==
    /\ pc[r] = "awaitCommit"
    /\ Caught(r, "persistFailed", error)
    /\ UNCHANGED <<call, result, config, now, dataset, txlog, uuids, props, action, secretDoc,
                   cleanup, url, opened>>

\* the delete is applied by the dataset and its promise resolves, lines 84-86
CleanupResolved(r) ==
    /\ cleanup[r] = "pending"
    /\ dataset' = DeleteExpired(dataset, now)
    /\ cleanup' = [cleanup EXCEPT ![r] = "fulfilled"]
    /\ UNCHANGED <<call, result, config, now, txlog, uuids, pc, props, action, secretDoc, url,
                   opened, toasts, console>>

\* as CleanupRejected, had the failure been reported to the user
CleanupRejectedSurfaced(r, error) ==
    /\ cleanup[r] = "pending"
    /\ cleanup' = [cleanup EXCEPT ![r] = "rejected"]
    /\ toasts' = [toasts EXCEPT ![r] =
            Append(@, [status |-> "error", title |-> "Preview failed",
                       description |-> error.message])]
    /\ UNCHANGED <<call, result, config, now, dataset, txlog, uuids, pc, props, action,
                   secretDoc, url, opened, console>>

\* the delete fails: the catch of lines 87-90 logs a warning
CleanupRejected(r, error) ==
    /\ cleanup[r] = "pending"
    /\ cleanup' = [cleanup EXCEPT ![r] = "rejected"]
    /\ console' = [console EXCEPT ![r] =
            Append(@, [level |-> "warn",
                       text |-> "Failed to cleanup expired preview secrets:"])]
    /\ UNCHANGED <<call, result, config, now, dataset, txlog, uuids, pc, props, action,
                   secretDoc, url, opened, toasts>>

\* time passes: a second, or a whole TTL
TicksDone == ((now - StartTime) \div TTL) + ((now - StartTime) % TTL)

Tick(d) ==
    /\ TicksDone < MaxTicks
    /\ now' = now + d
    /\ UNCHANGED <<call, result, config, dataset, txlog, uuids, pc, props, action, secretDoc,
                   cleanup, url, opened, toasts, console>>

----------------------------------------------------------------------------
\* no function is being called on its own
NoCall == [fn |-> "none"]
NoResult == [t |-> "pending"]

NoProps == [id |-> "", type |-> "", draft |-> Undefined, published |-> Undefined]

Init ==
    /\ config \in Configs
    /\ now = StartTime
    /\ dataset = InitialDataset
    /\ txlog = [r \in Reqs |-> <<>>]
    /\ uuids = 0
    /\ pc = [r \in Reqs |-> "idle"]
    /\ props = [r \in Reqs |-> NoProps]
    /\ action = [r \in Reqs |-> Undefined]
    /\ secretDoc = [r \in Reqs |-> NoDoc]
    /\ cleanup = [r \in Reqs |-> "none"]
    /\ url = [r \in Reqs |-> ""]
    /\ opened = [r \in Reqs |-> <<>>]
    /\ toasts = [r \in Reqs |-> <<>>]
    /\ console = [r \in Reqs |-> <<>>]
    /\ call = NoCall
    /\ result = NoResult

Next ==
    \/ \E r \in Reqs, p \in PropsPool : Render(r, p)
    \/ \E r \in Reqs : handlePreview(r)
    \/ \E r \in Reqs, open \in OpenOutcomes : CommitResolved(r, open)
    \/ \E r \in Reqs, e \in CommitErrors : CommitRejected(r, e)
    \/ \E r \in Reqs : CleanupResolved(r)
    \/ \E r \in Reqs, e \in DeleteErrors : CleanupRejected(r, e)
    \/ \E d \in {1, TTL} : Tick(d)

Spec == Init /\ [][Next]_vars

----------------------------------------------------------------------------
(* Several handlePreview invocations in flight at once, each of a document
   that is configured and has a slug, so that each reaches line 180; the
   commits of lines 193-196 succeed and interleave with the sweeps of line 199
   and with the passing of time *)

MaxConcurrent == 2
ConcurrentReqs == 1..MaxConcurrent

ConcurrentPropsPool == {p \in PropsPool : p.id \in {"page-1", "post-1"}}

ConcurrentInit ==
    /\ config = [previewUrl |-> Str("http://localhost:3000"), slugField |-> Undefined]
    /\ now = StartTime
    /\ dataset = InitialDataset
    /\ txlog = [r \in ConcurrentReqs |-> <<>>]
    /\ uuids = 0
    /\ pc = [r \in ConcurrentReqs |-> "idle"]
    /\ props = [r \in ConcurrentReqs |-> NoProps]
    /\ action = [r \in ConcurrentReqs |-> Undefined]
    /\ secretDoc = [r \in ConcurrentReqs |-> NoDoc]
    /\ cleanup = [r \in ConcurrentReqs |-> "none"]
    /\ url = [r \in ConcurrentReqs |-> ""]
    /\ opened = [r \in ConcurrentReqs |-> <<>>]
    /\ toasts = [r \in ConcurrentReqs |-> <<>>]
    /\ console = [r \in ConcurrentReqs |-> <<>>]
    /\ call = NoCall
    /\ result = NoResult

ConcurrentNext ==
    \/ \E r \in ConcurrentReqs, p \in ConcurrentPropsPool : Render(r, p)
    \/ \E r \in ConcurrentReqs : handlePreview(r)
    \/ \E r \in ConcurrentReqs : CommitResolved(r, [ok |-> TRUE])
    \/ \E r \in ConcurrentReqs : CleanupResolved(r)
    \/ \E d \in {1, TTL} : Tick(d)

ConcurrentSpec == ConcurrentInit /\ [][ConcurrentNext]_vars

----------------------------------------------------------------------------
(* The functions of the module called on their own: one call, drawn from the
   arguments below, and its return *)

\* documents of getSlugValue's `doc: any`: absent, not an object, and objects
\* whose slug is a string, empty, a number, null, an object, an array, absent
DocFlatSlug == Obj([_id |-> Str("flat-1"), slug |-> Str("flat")])
DocNullSlug == Obj([_id |-> Str("null-1"), slug |-> Null])
DocDeepSlug ==
    Obj([_id |-> Str("deep-1"),
         slug |-> Obj([current |-> Obj([value |-> Str("deep")])])])
DocListSlug ==
    Obj([_id |-> Str("list-1"),
         slug |-> Obj([current |-> Obj([length |-> Num(1), first |-> Str("listed")])])])
DocEmpty == Obj([_id |-> Str("empty-1")])

SlugDocs ==
    { Undefined, Null, Str("home"), Num(7), DocEmpty, DocHome, DocNumericSlug,
      DocEmptySlug, DocPost, DocProduct, DocFlatSlug, DocNullSlug, DocDeepSlug,
      DocListSlug }

SlugPaths ==
    { "", "slug", "slug.current", "slug.current.value", "slug.current.length",
      "slug.current.first", "slug..current", ".", "slug.", "meta.slug",
      "productSlug.current", "constructor", "slug.toString",
      "__proto__.__proto__.slug", "_id" }

GetSlugValueCalls ==
    {[fn |-> "getSlugValue", doc |-> d, path |-> p] : d \in SlugDocs, p \in SlugPaths}

\* lines 156 and 203-217 for a type's urlPrefix, the two versions of a document
\* and its slug
DocProductPublished ==
    Obj([_id |-> Str("prod-1"), _type |-> Str("product"),
         category |-> Str("hats"),
         productSlug |-> Obj([current |-> Str("boot")])])

UrlPrefixes ==
    { Undefined, Str(""), Str("/blog"), Str("blog"), Str("/blog/"),
      Fn("byCategory"), Fn("byVenue") }

Versions ==
    { [draft |-> DocProduct, published |-> DocProductPublished],
      [draft |-> DocProduct, published |-> Undefined],
      [draft |-> Undefined,  published |-> DocProductPublished] }

Slugs == {"boot", "a/b", "x", "/", "/about"}

PathnameCalls ==
    {[fn |-> "pathname", urlPrefix |-> u, draft |-> v.draft,
      published |-> v.published, slug |-> g] :
        u \in UrlPrefixes, v \in Versions, g \in Slugs}

\* lines 212-221 for a previewUrl, a draftRoute, a secret and a pathname
PreviewUrls ==
    { Str("http://localhost:3000"), Str("http://localhost:3000/"),
      Str("https://example.com/app"), Str("https://example.com/app/"),
      Str("example.com"), Undefined }

DraftRoutes == {"/api/draft", "api/draft", "/api/preview/"}

Pathnames == {"/home", "/blog/hello world", "/a&b=c"}

UrlCalls ==
    {[fn |-> "url", previewUrl |-> b, draftRoute |-> d, secret |-> g,
      pathname |-> q] :
        b \in PreviewUrls, d \in DraftRoutes,
        g \in {generateUrlSecret(a) : a \in RandomArrays}, q \in Pathnames}

\* generateUrlSecret where crypto is defined, on arrays that between them hold
\* every byte, and where it is not, on numbers of no, one, twelve and
\* fourteen base-36 digits
ByteArrays ==
    RandomArrays
    \cup {[i \in 1..SecretBytes |-> b] : b \in 0..255}
    \cup {[i \in 1..SecretBytes |-> (b + 17 * i) % 256] : b \in {0, 101, 202}}

MathRandoms ==
    { <<>>, <<35>>, [i \in 1..12 |-> i - 1], [i \in 1..12 |-> i + 11],
      [i \in 1..12 |-> i + 23], [i \in 1..14 |-> (7 * i) % 36] }

GenerateUrlSecretCalls ==
    {[fn |-> "generateUrlSecret", crypto |-> TRUE, array |-> a] : a \in ByteArrays}
    \cup {[fn |-> "generateUrlSecret", crypto |-> FALSE, r1 |-> x, r2 |-> y] :
              x \in MathRandoms, y \in MathRandoms}

Calls == GetSlugValueCalls \cup PathnameCalls \cup UrlCalls \cup GenerateUrlSecretCalls

\* generateUrlSecret(), lines 40-56
CallGenerateUrlSecret ==
    /\ call.fn = "generateUrlSecret"
    /\ result = NoResult
    /\ result' = [t |-> "returned",
                  value |-> IF call.crypto
                            THEN generateUrlSecret(call.array)
                            ELSE generateUrlSecretFallback(call.r1, call.r2)]
    /\ UNCHANGED <<call, config, now, dataset, txlog, uuids, pc, props, action,
                   secretDoc, cleanup, url, opened, toasts, console>>

\* the value thrown, or the string handed to window.open
CallUrl ==
    /\ call.fn = "url"
    /\ result = NoResult
    /\ LET u == NewURL(call.draftRoute, call.previewUrl) IN
       result' = IF u.ok
                 THEN [t |-> "returned",
                       value |-> UrlToString(FillUrl(u.value, call.secret, call.pathname))]
                 ELSE [t |-> "thrown", value |-> u.error]
    /\ UNCHANGED <<call, config, now, dataset, txlog, uuids, pc, props, action,
                   secretDoc, cleanup, url, opened, toasts, console>>

\* the value thrown, or the pathname
CallPathname ==
    /\ call.fn = "pathname"
    /\ result = NoResult
    /\ LET typeConfig == [urlPrefix |-> call.urlPrefix, slugField |-> Undefined]
           prefix == urlPrefixOf(typeConfig, DocumentOf(call))
       IN  result' = IF prefix.ok
                     THEN [t |-> "returned", value |-> Pathname(prefix.value, call.slug)]
                     ELSE [t |-> "thrown", value |-> prefix.error]
    /\ UNCHANGED <<call, config, now, dataset, txlog, uuids, pc, props, action,
                   secretDoc, cleanup, url, opened, toasts, console>>

CallGetSlugValue ==
    /\ call.fn = "getSlugValue"
    /\ result = NoResult
    /\ result' = getSlugValue(call.doc, call.path)
    /\ UNCHANGED <<call, config, now, dataset, txlog, uuids, pc, props, action,
                   secretDoc, cleanup, url, opened, toasts, console>>

CallInit ==
    /\ call \in Calls
    /\ result = NoResult
    /\ config = [previewUrl |-> Str("http://localhost:3000"), slugField |-> Undefined]
    /\ now = StartTime
    /\ dataset = InitialDataset
    /\ txlog = <<>>
    /\ uuids = 0
    /\ pc = <<>>
    /\ props = <<>>
    /\ action = <<>>
    /\ secretDoc = <<>>
    /\ cleanup = <<>>
    /\ url = <<>>
    /\ opened = <<>>
    /\ toasts = <<>>
    /\ console = <<>>

CallNext ==
    \/ CallGetSlugValue
    \/ CallPathname
    \/ CallUrl
    \/ CallGenerateUrlSecret

CallSpec == CallInit /\ [][CallNext]_vars

----------------------------------------------------------------------------
(* Vocabulary of the properties *)

\* the callback of invocation r has been called
Called(r) == pc[r] \notin {"idle", "rendered"}

\* the callback of invocation r has returned or its promise has settled
Ended(r) == pc[r] \in {"configMissing", "documentMissing", "slugMissing",
                       "persistFailed", "unknownFailure", "done"}

\* the types of the configuration, read off `types`
ConfiguredTypes == {"page", "blogPost", "product", "event", "note"}

\* the component returned an action, not null
Offered(a) == "label" \in DOMAIN a

HasDocument(p) == p.draft.t = "object" \/ p.published.t = "object"

ErrorToasts(r) == {i \in DOMAIN toasts[r] : toasts[r][i].status = "error"}
SuccessToasts(r) == {i \in DOMAIN toasts[r] : toasts[r][i].status = "success"}

\* the value of the query parameter `name` in href, still encoded; "" if absent
RawParam(href, name) ==
    LET q     == IndexOf(href, "?", 1)
        pairs == IF q = 0 THEN <<>> ELSE Split(SubSeq(href, q + 1, Len(href)), "&")
        hit   == {i \in DOMAIN pairs : StartsWith(pairs[i], name \o "=")}
    IN IF hit = {} THEN ""
       ELSE LET i == CHOOSE j \in hit : \A k \in hit : j <= k IN
            SubSeq(pairs[i], Len(name) + 2, Len(pairs[i]))

\* the slug path the configuration gives a type
ExpectedSlugField(type) ==
    IF type = "product" THEN "productSlug.current"
    ELSE IF config.slugField.t = "string" THEN config.slugField.s
    ELSE "slug.current"

----------------------------------------------------------------------------
(* C1: when the commit of an invocation fails, that invocation builds and   *)
(* opens no URL, sends no cleanup delete, writes nothing, and ends with     *)
(* exactly one toast, an error.                                             *)
C1_PersistFailureAborts ==
    \A r \in Reqs :
        pc[r] = "persistFailed" =>
            /\ url[r] = ""
            /\ opened[r] = <<>>
            /\ cleanup[r] = "none"
            /\ txlog[r] = <<>>
            /\ Len(toasts[r]) = 1
            /\ toasts[r][1].status = "error"

C1_Witness ==
    \E r \in Reqs : pc[r] = "persistFailed" /\ secretDoc[r] # NoDoc

(* C2: a URL is opened, and success reported, only by an invocation whose   *)
(* commit has been applied, and the sanity-preview-secret parameter of the  *)
(* opened URL is the secret of the document that invocation committed.      *)
C2_OpenAfterCommitWithItsSecret ==
    \A r \in Reqs :
        (opened[r] # <<>> \/ SuccessToasts(r) # {}) =>
            /\ Len(txlog[r]) = 1
            /\ Len(opened[r]) = 1
            /\ RawParam(opened[r][1], "sanity-preview-secret")
                   = FormEncode(txlog[r][1].doc.secret)
            /\ txlog[r][1].doc.secret # ""

C2_Witness ==
    \E r \in Reqs : pc[r] = "done" /\ opened[r] # <<>> /\ Len(txlog[r]) = 1

(* C3, as claimed: no invocation has sent its cleanup delete without having *)
(* built its URL.                                                           *)
C3_CleanupOnlyAfterUrlBuilt ==
    \A r \in Reqs : cleanup[r] # "none" => url[r] # ""

(* C3, amended: an invocation sends its cleanup delete exactly when its     *)
(* commit has resolved, before the prefix is resolved and the URL built: an *)
(* invocation whose prefix function or URL construction throws has sent it. *)
C3_CleanupOnceCommitted ==
    \A r \in Reqs :
        /\ cleanup[r] # "none" <=> txlog[r] # <<>>
        /\ pc[r] = "unknownFailure" => cleanup[r] # "none"

C3_Witness ==
    \E r \in Reqs : pc[r] = "unknownFailure" /\ url[r] = "" /\ cleanup[r] = "pending"

(* C4: handlePreview does not wait for the cleanup: while the delete of an  *)
(* invocation is still pending the invocation has already run to its end,   *)
(* and unless a later step threw it has opened its URL and reported         *)
(* success.                                                                 *)
C4_MainFlowDoesNotWaitForCleanup ==
    \A r \in Reqs :
        cleanup[r] = "pending" =>
            /\ pc[r] \in {"done", "unknownFailure"}
            /\ pc[r] = "done" =>
                 /\ Len(opened[r]) = 1
                 /\ toasts[r] = <<SuccessToast>>
            /\ Len(toasts[r]) = 1

C4_Witness ==
    \E r \in Reqs : cleanup[r] = "pending" /\ pc[r] = "done" /\ opened[r] # <<>>

(* C5: the settlement of the cleanup delete, successful or not, changes     *)
(* nothing of what the invocation opened or told the user; a failure adds   *)
(* one console warning and nothing else.                                    *)
C5_CleanupFailureSwallowed ==
    [][\A r \in Reqs :
         (cleanup[r] = "pending" /\ cleanup'[r] # "pending") =>
            /\ toasts' = toasts
            /\ opened' = opened
            /\ url' = url
            /\ pc' = pc
            /\ cleanup'[r] = "fulfilled" => console' = console
            /\ cleanup'[r] = "rejected" =>
                 /\ dataset' = dataset
                 /\ Len(console'[r]) = Len(console[r]) + 1
                 /\ console'[r][Len(console'[r])].level = "warn"]_vars

C5_Witness ==
    \E r \in Reqs :
        /\ cleanup[r] = "rejected"
        /\ pc[r] = "done"
        /\ toasts[r] = <<SuccessToast>>
        /\ \E i \in DOMAIN console[r] : console[r][i].level = "warn"

(* C6: whatever is thrown once the callback has passed its checks - by the  *)
(* commit, the urlPrefix function, new URL or window.open - ends in the     *)
(* catch block: one error toast titled "Preview failed" that carries the    *)
(* message of the Error thrown, or the generic text when the thrown value   *)
(* is no Error, and one console.error; no invocation is left in between.    *)
C6_ExpectedDescription(r) ==
    IF pc[r] = "persistFailed"
    THEN "Insufficient permissions; permission \"create\" required"
    ELSE IF props[r].type = "event"
    THEN "Cannot read properties of undefined (reading 'city')"
    ELSE IF props[r].type = "note"
    THEN "An unknown error occurred"
    ELSE IF config.previewUrl.t = "undefined"
    THEN "Invalid URL"
    ELSE "Failed to execute 'open' on 'Window'"

C6_EveryExceptionReported ==
    \A r \in Reqs :
        /\ Called(r) => (Ended(r) \/ pc[r] = "awaitCommit")
        /\ pc[r] \in {"persistFailed", "unknownFailure"} =>
             /\ toasts[r] = <<Toast("error", "Preview failed", C6_ExpectedDescription(r))>>
             /\ \E i \in DOMAIN console[r] : console[r][i].level = "error"
        /\ (txlog[r] # <<>> /\ opened[r] = <<>>) => pc[r] = "unknownFailure"

C6_Witness ==
    \E r \in Reqs :
        /\ pc[r] = "unknownFailure"
        /\ props[r].type = "note"
        /\ toasts[r] = <<Toast("error", "Preview failed", "An unknown error occurred")>>

(* C7, as claimed: the component returns an action only for a configured    *)
(* type with a draft or a published document, and returns nothing           *)
(* otherwise; it never returns an action whose disabled flag is set.        *)
C7_AbsentUnlessConfiguredAndDocument ==
    \A r \in Reqs :
        pc[r] # "idle" =>
            /\ Offered(action[r]) <=>
                   (props[r].type \in ConfiguredTypes /\ HasDocument(props[r]))
            /\ Offered(action[r]) => ~action[r].disabled

(* C7, amended: the component returns an action exactly when the type has a *)
(* configuration entry; for a configured type with neither draft nor        *)
(* published the action is returned with its disabled flag set, and the     *)
(* flag is set in no other case.                                            *)
C7_OfferedIffConfigured ==
    \A r \in Reqs :
        pc[r] # "idle" =>
            /\ Offered(action[r]) <=> props[r].type \in ConfiguredTypes
            /\ ~Offered(action[r]) => action[r] = Null
            /\ Offered(action[r]) =>
                   /\ action[r].label = "Preview"
                   /\ action[r].disabled <=> ~HasDocument(props[r])

C7_Witness ==
    \E r \in Reqs :
        /\ pc[r] # "idle"
        /\ props[r].type \in ConfiguredTypes
        /\ ~HasDocument(props[r])
        /\ Offered(action[r])
        /\ action[r].disabled

(* C8: a callback called for a type that has no configuration entry commits *)
(* nothing and makes no secret document, and it returns at the type check:  *)
(* before the document check and before the slug is resolved.               *)
C8_UnconfiguredTypeNeverPersists ==
    \A r \in Reqs :
        (Called(r) /\ props[r].type \notin ConfiguredTypes) =>
            /\ pc[r] = "configMissing"
            /\ txlog[r] = <<>>
            /\ secretDoc[r] = NoDoc
            /\ cleanup[r] = "none"
            /\ \A d \in dataset : d.source # props[r].id
            /\ \A i \in DOMAIN toasts[r] :
                   toasts[r][i].title \notin {"Missing slug", "No document found"}

C8_Witness ==
    \E r \in Reqs :
        /\ pc[r] = "configMissing"
        /\ getSlugValue(props[r].draft, "slug.current") = Str("ann")

C10_EarlyExitState ==
    \A r \in Reqs :
        pc[r] \in {"documentMissing", "slugMissing"} =>
            /\ secretDoc[r] = NoDoc
            /\ txlog[r] = <<>>
            /\ cleanup[r] = "none"
            /\ url[r] = ""
            /\ opened[r] = <<>>
            /\ console[r] = <<>>
            /\ Len(toasts[r]) = 1
            /\ toasts[r][1].status = "error"
            /\ pc[r] = "documentMissing" => ~HasDocument(props[r])
            /\ pc[r] = "slugMissing" =>
                 toasts[r][1].description =
                     "Document missing required field: "
                         \o ExpectedSlugField(props[r].type)

C10_EarlyExitStep ==
    \A r \in Reqs :
        (pc[r] = "rendered" /\ pc'[r] \in {"documentMissing", "slugMissing"}) =>
            /\ dataset' = dataset
            /\ uuids' = uuids
            /\ txlog' = txlog
            /\ secretDoc' = secretDoc
            /\ cleanup' = cleanup
            /\ opened' = opened

C10_MissingDocumentOrSlugHasNoSideEffects ==
    []C10_EarlyExitState /\ [][C10_EarlyExitStep]_vars

C10_Witness ==
    \E r \in Reqs :
        /\ pc[r] = "slugMissing"
        /\ props[r].id = "page-3"
        /\ toasts[r] = <<Toast("error", "Missing slug",
                               "Document missing required field: slug.current")>>
        /\ dataset = InitialDataset

----------------------------------------------------------------------------
(* Properties of concurrent invocations.  They range over DOMAIN pc, the
   invocations of the specification at hand. *)

Committed(r) == txlog[r] # <<>>

RecordOf(r) == txlog[r][1].doc

Stored(r) == {d \in dataset : d._id = RecordOf(r)._id}

SweptOnce == \E r \in DOMAIN cleanup : cleanup[r] = "fulfilled"

\* C11: every invocation that reaches the commit writes exactly one record,
\* under an identifier no other invocation uses, so no invocation replaces the
\* record of another; until a sweep has run, the dataset holds one new record
\* per committed invocation, invocations of the same document included, and
\* the record of an invocation holds the secret and the source of that
\* invocation.
C11_OneFreshRecordPerRequest ==
    /\ \A r \in DOMAIN pc :
          /\ Len(txlog[r]) <= 1
          /\ pc[r] \in {"done", "unknownFailure"} => Committed(r)
          /\ Committed(r) => RecordOf(r) = secretDoc[r]
    /\ \A r1, r2 \in DOMAIN pc :
          (Committed(r1) /\ Committed(r2) /\ r1 # r2) =>
              RecordOf(r1)._id # RecordOf(r2)._id
    /\ ~SweptOnce =>
          /\ \A r \in DOMAIN pc :
                Committed(r) =>
                    \E d \in dataset :
                        /\ Stored(r) = {d}
                        /\ d.secret = secretDoc[r].secret
                        /\ d.source = props[r].id
                        /\ d._updatedAt = txlog[r][1].at
          /\ Cardinality(dataset \ InitialDataset)
                = Cardinality({r \in DOMAIN pc : Committed(r)})

C11_Witness ==
    /\ ~SweptOnce
    /\ \E r1, r2 \in DOMAIN pc :
          /\ r1 # r2
          /\ props[r1].id = "page-1" /\ props[r2].id = "page-1"
          /\ pc[r1] = "done" /\ pc[r2] = "done"
          /\ txlog[r1][1].at # txlog[r2][1].at
          /\ Stored(r1) # Stored(r2)
          /\ Cardinality(dataset \ InitialDataset) = 2

Age(d) == now - d._updatedAt

\* C12: whatever the interleaving of sweeps and commits, a record leaves the
\* dataset only if it is a secret last updated a whole TTL ago or more; so the
\* record of an invocation is in the dataset while it is younger than the TTL,
\* and it is there when the invocation opens its URL.
C12_FreshRecordStored ==
    \A r \in DOMAIN pc :
        (Committed(r) /\ now - txlog[r][1].at < TTL) => Stored(r) # {}

C12_SweepStep ==
    /\ \A d \in dataset :
          (\A e \in dataset' : e._id # d._id) =>
              (d._type = SecretType /\ Age(d) >= TTL)
    /\ \A r \in DOMAIN pc :
          opened'[r] # opened[r] =>
              \E e \in dataset' :
                  /\ e._id = secretDoc[r]._id
                  /\ e.secret = secretDoc[r].secret

C13_FailedAfterCommit(r) == pc[r] = "unknownFailure"

C13_RecordKept ==
    \A r \in DOMAIN pc :
        C13_FailedAfterCommit(r) =>
            /\ Committed(r)
            /\ RecordOf(r) = secretDoc[r]
            /\ Stored(r) = {} =>
                  (now - txlog[r][1].at >= TTL /\ SweptOnce)

C13_Step ==
    \A r \in DOMAIN pc :
        /\ (pc[r] = "awaitCommit" /\ pc'[r] = "unknownFailure") =>
              \E d \in dataset' :
                  /\ d._id = secretDoc[r]._id
                  /\ d.secret = secretDoc[r].secret
                  /\ d._updatedAt = now
        /\ (C13_FailedAfterCommit(r) /\ Stored(r) # {}
               /\ \A d \in dataset' : d._id # secretDoc[r]._id) =>
              /\ now - txlog[r][1].at >= TTL
              /\ \E q \in DOMAIN pc :
                    cleanup[q] = "pending" /\ cleanup'[q] = "fulfilled"

C13_NoRollbackAfterCommit == []C13_RecordKept /\ [][C13_Step]_vars

\* previewUrl is absent, so new URL throws after the commit; the sweep sent
\* before it has run and the record is still stored
C13_Witness ==
    \E r \in DOMAIN pc :
        /\ C13_FailedAfterCommit(r)
        /\ config.previewUrl = Undefined
        /\ props[r].id = "post-1"
        /\ opened[r] = <<>>
        /\ cleanup[r] = "fulfilled"
        /\ Stored(r) # {}
        /\ toasts[r] = <<Toast("error", "Preview failed", "Invalid URL")>>

\* C14: every record handlePreview writes has an _id that begins with
\* "drafts.", the _type sanity.previewUrlSecret and, as source, the id of the
\* document the preview was asked for; nothing is written under an _id
\* without the prefix, and the documents already stored are left as they are.
C14_WellFormed(doc, r) ==
    /\ StartsWith(doc._id, "drafts.")
    /\ Len(doc._id) > Len("drafts.")
    /\ doc._type = "sanity.previewUrlSecret"
    /\ doc.source = props[r].id

C14_RecordsAreDraftSecrets ==
    /\ \A r \in DOMAIN pc :
          /\ \A i \in 1..Len(txlog[r]) : C14_WellFormed(txlog[r][i].doc, r)
          /\ pc[r] = "awaitCommit" => C14_WellFormed(secretDoc[r], r)
    /\ \A d \in dataset \ InitialDataset :
          \E r \in DOMAIN pc : Committed(r) /\ C14_WellFormed(d, r)
    /\ \A d \in dataset :
          ~StartsWith(d._id, "drafts.") => d \in InitialDataset

C14_Witness ==
    \E r \in DOMAIN pc :
        /\ pc[r] = "done"
        /\ props[r].id = "prod-1"
        /\ \E d \in dataset :
              /\ d._id = "drafts.uuid-1"
              /\ d._type = "sanity.previewUrlSecret"
              /\ d.source = "prod-1"
        /\ \E d \in dataset : d._id = "page-3" /\ d._type = "page"

\* C15: a sweep applied at time now deletes the records of type
\* sanity.previewUrlSecret last updated at now - 3600 or before, and nothing
\* else: a secret 3601 s or 3600 s old goes, a secret 3599 s old stays, and a
\* record of another type stays whatever its age.
C15_SweepApplied ==
    \E r \in DOMAIN pc : cleanup[r] = "pending" /\ cleanup'[r] = "fulfilled"

C15_SweepStep ==
    C15_SweepApplied =>
        /\ dataset' \subseteq dataset
        /\ \A d \in dataset :
              /\ d \notin dataset' <=>
                    (d._type = "sanity.previewUrlSecret" /\ now - d._updatedAt >= 3600)
              /\ (d._type = "sanity.previewUrlSecret" /\ d._updatedAt + 3601 = now)
                    => d \notin dataset'
              /\ (d._type = "sanity.previewUrlSecret" /\ d._updatedAt + 3600 = now)
                    => d \notin dataset'
              /\ (d._type = "sanity.previewUrlSecret" /\ d._updatedAt + 3599 = now)
                    => d \in dataset'
              /\ d._type # "sanity.previewUrlSecret" => d \in dataset'

C15_SweepDeletesExactlyExpiredSecrets == [][C15_SweepStep]_vars

\* a sweep applied at 3600: the secret of time 0 is gone, the secret of time 1
\* is kept, and so is the page of time 0
C15_Witness ==
    /\ now = 3600
    /\ \E r \in DOMAIN pc : cleanup[r] = "fulfilled"
    /\ \A d \in dataset : d._id # "drafts.old-0"
    /\ \E d \in dataset : d._id = "drafts.old-1" /\ d._updatedAt = 1
    /\ \E d \in dataset : d._id = "page-3" /\ d._updatedAt = 0

\* the member k of v, read without the resolver
C16_Member(v, k) ==
    IF v.t = "object" /\ k \in DOMAIN v.f THEN v.f[k] ELSE Undefined

C16_Document(p) == IF p.draft.t = "object" THEN p.draft ELSE p.published

C16_Slug(p) ==
    LET doc == C16_Document(p)
        path == ExpectedSlugField(p.type)
    IN  CASE path = "slug.current" -> C16_Member(C16_Member(doc, "slug"), "current")
          [] path = "productSlug.current" ->
                C16_Member(C16_Member(doc, "productSlug"), "current")
          [] path = "meta.slug" -> C16_Member(C16_Member(doc, "meta"), "slug")

C16_AtSlugStep(r) ==
    /\ Called(r)
    /\ props[r].type \in ConfiguredTypes
    /\ HasDocument(props[r])

\* C16 as stated: an invocation that has a configured type and a document
\* ends in slugMissing exactly when the resolver returns null for the slug
\* path of its type.
C16_ProceedsIffResolverNonNull ==
    \A r \in DOMAIN pc :
        C16_AtSlugStep(r) =>
            (pc[r] = "slugMissing" <=>
                getSlugValue(C16_Document(props[r]),
                             ExpectedSlugField(props[r].type)) = Null)

\* C16: the slug is read from the draft when there is one and from the
\* published version otherwise, at the slug path of the type, else the global
\* one, else slug.current; the invocation goes on to issue a secret exactly
\* when the value there is a string that is not empty, and ends in slugMissing
\* when the resolver returns null or the empty string.
C16_ProceedsIffSlugNonEmpty ==
    \A r \in DOMAIN pc :
        C16_AtSlugStep(r) =>
            LET slug == C16_Slug(props[r])
                resolved == getSlugValue(C16_Document(props[r]),
                                         ExpectedSlugField(props[r].type))
            IN  /\ pc[r] = "slugMissing" <=> ~(slug.t = "string" /\ slug.s # "")
                /\ pc[r] = "slugMissing" <=> resolved \in {Null, Str("")}
                /\ pc[r] # "slugMissing" => secretDoc[r] # NoDoc
                /\ pc[r] = "slugMissing" =>
                      /\ secretDoc[r] = NoDoc
                      /\ toasts[r] = <<Toast("error", "Missing slug",
                              "Document missing required field: "
                                  \o ExpectedSlugField(props[r].type))>>

\* the draft's slug is the empty string: the resolver returns it, and the
\* invocation ends in slugMissing
C16_Witness ==
    \E r \in DOMAIN pc :
        /\ props[r].id = "page-4"
        /\ config.slugField = Undefined
        /\ getSlugValue(props[r].draft, "slug.current") = Str("")
        /\ pc[r] = "slugMissing"
        /\ secretDoc[r] = NoDoc

\* the strings that the documents above hold, by path: every other pair of a
\* document and a path leads to no string
C17_StringAt ==
    { <<DocHome, "slug.current", "home">>,
      <<DocHome, "_id", "drafts.page-1">>,
      <<DocNumericSlug, "_id", "drafts.page-3">>,
      <<DocEmptySlug, "slug.current", "">>,
      <<DocEmptySlug, "_id", "drafts.page-4">>,
      <<DocPost, "slug.current", "hello">>,
      <<DocPost, "meta.slug", "hello-meta">>,
      <<DocPost, "_id", "post-1">>,
      <<DocProduct, "productSlug.current", "boot">>,
      <<DocProduct, "_id", "drafts.prod-1">>,
      <<DocFlatSlug, "slug", "flat">>,
      <<DocFlatSlug, "_id", "flat-1">>,
      <<DocNullSlug, "_id", "null-1">>,
      <<DocDeepSlug, "slug.current.value", "deep">>,
      <<DocDeepSlug, "_id", "deep-1">>,
      <<DocListSlug, "slug.current.first", "listed">>,
      <<DocListSlug, "_id", "list-1">>,
      <<DocEmpty, "_id", "empty-1">> }

C17_Returned == call.fn = "getSlugValue" /\ result # NoResult

\* C17: getSlugValue fails closed.  For every document and path it returns
\* null or a string; null when the document is absent or the path is empty,
\* null when a segment of the path meets a value that is not an object
\* holding it, and the value reached only when that value is a string, which
\* it returns as it is.
C17_ResolverFailsClosed ==
    C17_Returned =>
        /\ result = Null \/ result.t = "string"
        /\ (call.doc \in {Undefined, Null} \/ call.path = "") => result = Null
        /\ \A e \in C17_StringAt :
              (call.doc = e[1] /\ call.path = e[2]) => result = Str(e[3])
        /\ (\A e \in C17_StringAt : ~(call.doc = e[1] /\ call.path = e[2]))
              => result = Null

\* a number at the end of the path: null, not "42"
C17_Witness ==
    /\ C17_Returned
    /\ call.doc = DocNumericSlug
    /\ call.path = "slug.current"
    /\ result = Null

C18_Returned == call.fn = "pathname" /\ result # NoResult

\* the category of the version the function is to be called with
C18_Category ==
    IF call.draft # Undefined THEN call.draft.f.category.s
    ELSE call.published.f.category.s

C19_Returned == call.fn = "url" /\ result.t = "returned"

\* the query of the URL: the pathname as URLSearchParams serialises it
C19_Query ==
    "?sanity-preview-secret=" \o call.secret \o "&sanity-preview-pathname="
        \o (CASE call.pathname = "/home" -> "%2Fhome"
               [] call.pathname = "/blog/hello world" -> "%2Fblog%2Fhello+world"
               [] call.pathname = "/a&b=c" -> "%2Fa%26b%3Dc")

C19_Endpoint ==
    LET origin == IF StartsWith(call.previewUrl.s, "https://example.com")
                  THEN "https://example.com" ELSE "http://localhost:3000"
        inApp == call.previewUrl.s = "https://example.com/app/"
    IN  CASE call.draftRoute = "/api/draft" -> origin \o "/api/draft"
          [] call.draftRoute = "/api/preview/" -> origin \o "/api/preview/"
          [] call.draftRoute = "api/draft" ->
                origin \o (IF inApp THEN "/app/api/draft" ELSE "/api/draft")

C19_BareOrigin ==
    call.previewUrl \in {Str("http://localhost:3000")}

C20_UrlSafe ==
    "ABCDEFGHIJKLMNOPQRSTUVWXYZabcdefghijklmnopqrstuvwxyz0123456789-_"

C20_Returned == call.fn = "generateUrlSecret" /\ result # NoResult

\* C20: generateUrlSecret returns, where crypto is defined and where it is
\* not, a string made of letters, digits, "-" and "_" alone: 43 of them from
\* the 16 random bytes, at most 26 from the two random numbers.
C20_SecretIsUrlSafe ==
    C20_Returned =>
        /\ result.t = "returned"
        /\ \A i \in 1..Len(result.value) :
              IndexOf(C20_UrlSafe, SubSeq(result.value, i, i), 1) > 0
        /\ call.crypto => Len(result.value) = 43
        /\ ~call.crypto => Len(result.value) <= 26

\* the fallback on two numbers of twelve and fourteen digits
C20_Witness ==
    /\ C20_Returned
    /\ ~call.crypto
    /\ call.r1 = [i \in 1..12 |-> i + 23]
    /\ call.r2 = [i \in 1..14 |-> (7 * i) % 36]
    /\ result.value = "opqrstuvwxyz" \o "7elsz6dkry5cj"

\* s has two slashes in a row somewhere
C21_DoubleSlash(s) == \E i \in 1..(Len(s) - 1) : SubSeq(s, i, i + 1) = "//"

\* C21: whatever the prefix (with or without a "/" at either end) and the
\* slug (be it "/" or a string that begins with "/"), the pathname begins
\* with exactly one "/" and has no "//" in it.
C21_PathnameNormalised ==
    (C18_Returned /\ result.t = "returned") =>
        /\ StartsWith(result.value, "/")
        /\ ~C21_DoubleSlash(result.value)

\* a prefix that ends with "/" is followed by a second one
C21_Witness ==
    /\ C18_Returned
    /\ call.urlPrefix = Str("/blog/")
    /\ call.slug = "boot"
    /\ result = [t |-> "returned", value |-> "/blog//boot"]

\* the commit of invocation r has resolved or rejected, and the handler has
\* run to its end
C22_Settled(r) == pc[r] \in {"persistFailed", "unknownFailure", "done"}

====
